---- MODULE Spec2Model ----
(***************************************************************************)
(* Sequence generator web form: the arithmetic-only script (src/app.py)    *)
(* and the arithmetic + geometric script (src/unnamed/part_000).           *)
(*                                                                         *)
(* Numbers.  Python floats are modelled as exact rationals <<num, den>>    *)
(* in lowest terms with den > 0.  Every input the model draws is a dyadic  *)
(* rational of small magnitude, for which IEEE-754 double arithmetic      *)
(* (add, subtract, multiply, divide, power) is exact, so the rational      *)
(* result is the float result.                                             *)
(* A session also draws the float 2.0 ** 1023 (Huge); Huge, the            *)
(* infinities and nan are values of their own, with the float rules for    *)
(* them in front of the rational rules.                                    *)
(* The float -0.0, which prints as "-0", is <<0, -1>>; 0.0 is <<0, 1>>.     *)
(* Python ints (num_terms, loop indices) are TLA+ integers.                *)
(*                                                                         *)
(* Text.  Python str values are TLA+ strings; \o is concatenation.         *)
(***************************************************************************)
EXTENDS Integers, Sequences, FiniteSets, TLC

(***************************************************************************)
(* Bounds of the model.                                                    *)
(***************************************************************************)
\* first_term ranges over the halves k/2 with |k/2| <= MaxFirstTerm
MaxFirstTerm == 1
\* second_param ranges over the halves k/2 with |k/2| <= MaxStep, and BigRatio
MaxStep == 2
\* a ratio whose powers leave the float range within MAX_TERMS terms
BigRatio == 4
\* term counts -1 .. MaxSmallTerms are drawn besides the program's constants
MaxSmallTerms == 3
\* a geometric input is computed exactly when BitLen(ratio) * n <= ExactBits
ExactBits == 20
\* the lists handed to the formatter alone: up to MaxListLen items, each a
\* half k/2 with |k/2| <= MaxItem
MaxListLen == 3
MaxItem == 3

(***************************************************************************)
(* Program constants.                                                      *)
(***************************************************************************)
\* if num_terms > 1000
MAX_TERMS == 1000
\* number_input("Number of Terms", value=10)
DEFAULT_NUM_TERMS == 10
\* number_input("First Term", value=1.0), ("Common Difference", value=1.0)
\* and ("Common Ratio", value=2.0)
DEFAULT_FIRST_TERM == 1
DEFAULT_DIFFERENCE == 1
DEFAULT_RATIO == 2
\* f"{x:.6g}": six significant digits
PRECISION == 6
\* the C double's exponent range: x ** y raises OverflowError from 2^1024 on
DBL_MAX_EXP == 1024

(***************************************************************************)
(* Rational arithmetic (the exact value of the float operations).          *)
(***************************************************************************)
Abs(i) == IF i < 0 THEN -i ELSE i

RECURSIVE Gcd(_, _)
Gcd(a, b) == IF b = 0 THEN a ELSE Gcd(b, a % b)

\* the rational n/d in lowest terms, d # 0
Q(n, d) ==
    LET g == Gcd(Abs(n), Abs(d))
        s == IF d < 0 THEN -1 ELSE 1
    IN  <<s * (n \div g), s * (d \div g)>>

\* Python number literals and ints used as floats
Num(i) == <<i, 1>>
Half(k) == Q(k, 2)
NegZero == <<0, -1>>

\* the outcome of a float division by zero (Python: ZeroDivisionError); it
\* is no number and every operation keeps it
DivByZero == <<0, 0>>
IsNumber(x) == x # DivByZero

\* 2.0 ** 1023, the largest power of two a float holds, and the values the
\* float operations give beyond the float range.  Next to an ordinary
\* number Huge is so large that adding the number leaves it unchanged; a
\* product or quotient of Huge that is neither a zero, Huge, an infinity
\* nor a one has no representation here, and the runs that would compute
\* one are left out (Modelled).
Huge == <<1, -2>>
NegHuge == <<-1, -2>>
Inf == <<1, 0>>
NegInf == <<-1, 0>>
NaN == <<2, 0>>
IsHuge(x) == x = Huge \/ x = NegHuge
IsInf(x) == x = Inf \/ x = NegInf
IsNaN(x) == x = NaN
IsOrdinary(x) == x[2] > 0 \/ x = <<0, -1>>
SignedHuge(neg) == IF neg THEN NegHuge ELSE Huge
SignedInf(neg) == IF neg THEN NegInf ELSE Inf
\* a value outside the model: no value at all
NotModelled(x, y) == CHOOSE v \in {} : v = <<x, y>>
IsZero(x) == x[1] = 0 /\ x[2] # 0
\* the sign bit of a float
IsNeg(x) == x[1] < 0 \/ (x[1] = 0 /\ x[2] < 0)
SignedZero(neg) == IF neg THEN NegZero ELSE Num(0)

Lcm(a, b) == (a \div Gcd(a, b)) * b

\* x == y
QEq(x, y) == ~IsNaN(x) /\ ~IsNaN(y) /\ (x = y \/ (IsZero(x) /\ IsZero(y)))

\* x + y with Huge, an infinity or a nan among the operands
AddBeyond(x, y) ==
    IF IsNaN(x) \/ IsNaN(y) THEN NaN
    ELSE IF IsInf(x) /\ IsInf(y) THEN (IF x = y THEN x ELSE NaN)
    ELSE IF IsInf(x) THEN x
    ELSE IF IsInf(y) THEN y
    ELSE IF IsHuge(x) /\ IsHuge(y) THEN (IF x = y THEN SignedInf(IsNeg(x)) ELSE Num(0))
    ELSE IF IsHuge(x) THEN x
    ELSE y
\* x + y: a sum of zeros is -0.0 only when both are; an exact cancellation
\* is 0.0
QAdd(x, y) ==
    IF ~IsNumber(x) \/ ~IsNumber(y) THEN DivByZero
    ELSE IF ~IsOrdinary(x) \/ ~IsOrdinary(y) THEN AddBeyond(x, y)
    ELSE IF IsZero(x) /\ IsZero(y) THEN SignedZero(IsNeg(x) /\ IsNeg(y))
    ELSE IF IsZero(x) THEN y
    ELSE IF IsZero(y) THEN x
    ELSE LET l == Lcm(x[2], y[2])
         IN  Q(x[1] * (l \div x[2]) + y[1] * (l \div y[2]), l)
QNeg(x) ==
    IF IsNaN(x) THEN NaN
    ELSE IF x[1] = 0 THEN <<0, -x[2]>> ELSE <<-x[1], x[2]>>
QSub(x, y) == QAdd(x, QNeg(y))
\* x < y; every comparison with a nan is false
Rank(x) == IF IsInf(x) THEN 2 * x[1] ELSE IF IsHuge(x) THEN x[1] ELSE 0
QLess(x, y) ==
    IF ~IsOrdinary(x) \/ ~IsOrdinary(y) THEN ~IsNaN(x) /\ ~IsNaN(y) /\ Rank(x) < Rank(y)
    ELSE IF IsZero(x) /\ IsZero(y) THEN FALSE
    ELSE IF IsZero(x) THEN y[1] > 0
    ELSE IF IsZero(y) THEN x[1] < 0
    ELSE LET l == Lcm(x[2], y[2])
         IN  x[1] * (l \div x[2]) < y[1] * (l \div y[2])
QAbs(x) ==
    IF IsNaN(x) THEN NaN
    ELSE IF IsHuge(x) THEN Huge
    ELSE <<Abs(x[1]), Abs(x[2])>>

\* an ordinary number o times Huge, the product negative when neg
MulHuge(o, neg) ==
    IF IsZero(o) THEN SignedZero(neg)
    ELSE IF QAbs(o) = Num(1) THEN SignedHuge(neg)
    ELSE IF ~QLess(QAbs(o), Num(2)) THEN SignedInf(neg)
    ELSE NotModelled(o, Huge)
\* x * y with Huge, an infinity or a nan among the operands
MulBeyond(x, y) ==
    IF IsNaN(x) \/ IsNaN(y) THEN NaN
    ELSE IF (IsInf(x) \/ IsInf(y)) /\ (IsZero(x) \/ IsZero(y)) THEN NaN
    ELSE IF IsInf(x) \/ IsInf(y) THEN SignedInf(IsNeg(x) # IsNeg(y))
    ELSE IF IsHuge(x) /\ IsHuge(y) THEN SignedInf(IsNeg(x) # IsNeg(y))
    ELSE MulHuge(IF IsHuge(x) THEN y ELSE x, IsNeg(x) # IsNeg(y))
\* x / y, y # 0, with Huge, an infinity or a nan among the operands
DivBeyond(x, y) ==
    IF IsNaN(x) \/ IsNaN(y) THEN NaN
    ELSE IF IsInf(x) /\ IsInf(y) THEN NaN
    ELSE IF IsInf(x) THEN SignedInf(IsNeg(x) # IsNeg(y))
    ELSE IF IsInf(y) THEN SignedZero(IsNeg(x) # IsNeg(y))
    ELSE IF IsHuge(x) /\ IsHuge(y) THEN (IF x = y THEN Num(1) ELSE Num(-1))
    ELSE IF IsZero(x) THEN SignedZero(IsNeg(x) # IsNeg(y))
    ELSE IF IsHuge(x) /\ QAbs(y) = Num(1) THEN SignedHuge(IsNeg(x) # IsNeg(y))
    ELSE IF IsHuge(x) /\ ~QLess(Half(1), QAbs(y)) THEN SignedInf(IsNeg(x) # IsNeg(y))
    ELSE NotModelled(x, y)
\* x * y: a zero product carries the product of the signs
QMul(x, y) ==
    IF ~IsNumber(x) \/ ~IsNumber(y) THEN DivByZero
    ELSE IF ~IsOrdinary(x) \/ ~IsOrdinary(y) THEN MulBeyond(x, y)
    ELSE IF IsZero(x) \/ IsZero(y) THEN SignedZero(IsNeg(x) # IsNeg(y))
    ELSE LET g1 == Gcd(Abs(x[1]), y[2])
             g2 == Gcd(Abs(y[1]), x[2])
         IN  <<(x[1] \div g1) * (y[1] \div g2), (x[2] \div g2) * (y[2] \div g1)>>
QDiv(x, y) ==
    IF ~IsNumber(x) \/ ~IsNumber(y) \/ IsZero(y) THEN DivByZero
    ELSE IF ~IsOrdinary(x) \/ ~IsOrdinary(y) THEN DivBeyond(x, y)
    ELSE IF IsZero(x) THEN SignedZero(IsNeg(x) # IsNeg(y))
    ELSE QMul(x, Q(y[2], y[1]))

\* x ** i for an int i >= 0, by squaring; 0 ** 0 == 1
RECURSIVE Pow(_, _)
Pow(x, i) ==
    IF i = 0 THEN Num(1)
    ELSE IF i % 2 = 0 THEN LET h == Pow(x, i \div 2) IN QMul(h, h)
    ELSE QMul(x, Pow(x, i - 1))

\* int(x) raises: OverflowError for an infinity, ValueError for a nan
IntRaises(x) == IsInf(x) \/ IsNaN(x)
\* str(e) of the exception
IntMessage(x) ==
    IF IsNaN(x) THEN "cannot convert float NaN to integer"
    ELSE "cannot convert float infinity to integer"
\* the first item of a list for which int(x) raises
FirstIntRaising(seq) ==
    seq[CHOOSE k \in 1..Len(seq) :
            /\ IntRaises(seq[k])
            /\ \A j \in 1..(k - 1) : ~IntRaises(seq[j])]

\* int(x) of an ordinary number: truncation toward zero
PyInt(x) ==
    IF x[1] = 0 THEN 0
    ELSE IF x[1] > 0 THEN x[1] \div x[2] ELSE -((-x[1]) \div x[2])

\* sum(sequence): the int 0 plus the terms.  Python adds from left to
\* right; the additions are exact here (a Huge, once reached, absorbs or
\* is cancelled term by term), so the order does not change the value, and
\* the halves keep the evaluation shallow for 1000 terms.
RECURSIVE SumRange(_, _, _)
SumRange(seq, lo, hi) ==
    IF lo > hi THEN Num(0)
    ELSE IF lo = hi THEN seq[lo]
    ELSE LET mid == (lo + hi) \div 2
         IN  QAdd(SumRange(seq, lo, mid), SumRange(seq, mid + 1, hi))
Sum(seq) == QAdd(Num(0), SumRange(seq, 1, Len(seq)))

\* max(sequence), min(sequence) of a non-empty sequence: the first of the
\* largest (smallest) items, an item replacing the one kept only when it is
\* strictly larger (smaller)
RECURSIVE MaxRange(_, _, _)
MaxRange(seq, lo, hi) ==
    IF lo = hi THEN seq[lo]
    ELSE LET mid == (lo + hi) \div 2
             l == MaxRange(seq, lo, mid)
             r == MaxRange(seq, mid + 1, hi)
         IN  IF QLess(l, r) THEN r ELSE l
Max(seq) == MaxRange(seq, 1, Len(seq))

RECURSIVE MinRange(_, _, _)
MinRange(seq, lo, hi) ==
    IF lo = hi THEN seq[lo]
    ELSE LET mid == (lo + hi) \div 2
             l == MinRange(seq, lo, mid)
             r == MinRange(seq, mid + 1, hi)
         IN  IF QLess(r, l) THEN r ELSE l
Min(seq) == MinRange(seq, 1, Len(seq))

(***************************************************************************)
(* Float range.  x ** i raises OverflowError when the result does not fit  *)
(* a double; the other float operations give an infinity instead.          *)
(***************************************************************************)
\* number of bits of a natural number
RECURSIVE BitLen(_)
BitLen(k) == IF k = 0 THEN 0 ELSE 1 + BitLen(k \div 2)

\* floor(log2 |x|) for |x| >= 1
FloorLog2(x) ==
    IF IsHuge(x) THEN DBL_MAX_EXP - 1
    ELSE BitLen(Abs(x[1]) \div Abs(x[2])) - 1

\* x ** i overflows.  |x| ** i >= 2 ** (FloorLog2(x) * i), so the test is
\* exact when |x| is a power of two and a sufficient one otherwise; Modelled
\* below admits no input for which it would be undecided.
PowOverflows(x, i) ==
    /\ ~QLess(QAbs(x), Num(1))
    /\ FloorLog2(x) * i >= DBL_MAX_EXP

(***************************************************************************)
(* Number to text.                                                         *)
(***************************************************************************)
DigitChar(d) == <<"0", "1", "2", "3", "4", "5", "6", "7", "8", "9">>[d + 1]

RECURSIVE NatToStr(_)
NatToStr(k) == IF k < 10 THEN DigitChar(k)
               ELSE NatToStr(k \div 10) \o DigitChar(k % 10)

\* str(i) of an int
Str(i) == IF i < 0 THEN "-" \o NatToStr(-i) ELSE NatToStr(i)

RECURSIVE Pow10(_)
Pow10(k) == IF k = 0 THEN 1 ELSE 10 * Pow10(k - 1)

\* the decimal exponent of p/d > 0: the X with 10^X <= p/d < 10^(X+1)
RECURSIVE ExpDown(_, _, _)
ExpDown(p, d, k) == IF p * Pow10(k) >= d THEN -k ELSE ExpDown(p, d, k + 1)
Exp10(p, d) == IF p >= d THEN Len(NatToStr(p \div d)) - 1 ELSE ExpDown(p, d, 1)

\* n/d rounded to the nearest integer, ties to even
RoundHalfEven(n, d) ==
    LET m == n \div d
        r == n % d
    IN  IF 2 * r > d \/ (2 * r = d /\ m % 2 = 1) THEN m + 1 ELSE m

RECURSIVE StripZeros(_)
StripZeros(s) ==
    IF Len(s) > 0 /\ SubSeq(s, Len(s), Len(s)) = "0"
    THEN StripZeros(SubSeq(s, 1, Len(s) - 1)) ELSE s

RECURSIVE Zeros(_)
Zeros(k) == IF k = 0 THEN "" ELSE "0" \o Zeros(k - 1)

\* the digits after the point, without trailing zeros and without the point
\* when none is left
Fraction(s) == IF StripZeros(s) = "" THEN "" ELSE "." \o StripZeros(s)

\* p/d * 10^sh rounded to an integer
RoundScaled(p, d, sh) ==
    IF sh >= 0 THEN RoundHalfEven(p * Pow10(sh), d)
    ELSE RoundHalfEven(p, d * Pow10(-sh))

\* the text of sign, the PRECISION digits digs and the decimal exponent X:
\* fixed notation when X is in -4 .. PRECISION-1 and scientific otherwise
Format6gDigits(sign, digs, X) ==
    IF X < -4 \/ X >= PRECISION
    THEN sign \o SubSeq(digs, 1, 1) \o Fraction(SubSeq(digs, 2, PRECISION))
         \o "e" \o (IF X < 0 THEN "-" ELSE "+")
         \o (IF Abs(X) < 10 THEN "0" ELSE "") \o NatToStr(Abs(X))
    ELSE IF X >= 0
    THEN sign \o SubSeq(digs, 1, X + 1) \o Fraction(SubSeq(digs, X + 2, PRECISION))
    ELSE sign \o "0." \o Zeros(-X - 1) \o StripZeros(digs)

\* rounding up to 10^PRECISION moves the exponent
Format6gRounded(sign, m, x0) ==
    IF m = Pow10(PRECISION)
    THEN Format6gDigits(sign, NatToStr(Pow10(PRECISION - 1)), x0 + 1)
    ELSE Format6gDigits(sign, NatToStr(m), x0)

Format6gExp(sign, p, d, x0) ==
    Format6gRounded(sign, RoundScaled(p, d, PRECISION - 1 - x0), x0)

\* str(int(2.0 ** 1023)) and repr(2.0 ** 1023)
HugeText == "89884656743115795386465259539451236680898848947115328636715040578866337902750481566354238661203768010560056939935696678829394884407208311246423715319737062188883946712432742638151109800623047059726541476042502884419075341171231440736956555270413618581675255342293149119973622969239858152417678164812112068608"
HugeRepr == "8.98846567431158e+307"
Minus(x) == IF IsNeg(x) THEN "-" ELSE ""

\* the text of an infinity or a nan, in f"{x:.6g}" and in repr alike
BeyondText(x) == IF IsNaN(x) THEN "nan" ELSE Minus(x) \o "inf"

\* f"{x:.6g}": PRECISION significant digits, rounded half to even, trailing
\* zeros (and a trailing point) removed; "898847" is what the digits of
\* HugeText round to
Format6g(x) ==
    IF IsHuge(x) THEN Format6gDigits(Minus(x), "898847", Len(HugeText) - 1)
    ELSE IF ~IsOrdinary(x) THEN BeyondText(x)
    ELSE IF x[1] = 0 THEN (IF x[2] < 0 THEN "-0" ELSE "0")
    ELSE Format6gExp(IF x[1] < 0 THEN "-" ELSE "", Abs(x[1]), x[2],
                     Exp10(Abs(x[1]), x[2]))

\* f"{x}" of a float: repr, which ends in ".0" for an integer value; the
\* other values of the model have at most PRECISION significant digits
FloatRepr(x) ==
    IF IsHuge(x) THEN Minus(x) \o HugeRepr
    ELSE IF ~IsOrdinary(x) THEN BeyondText(x)
    ELSE IF x = NegZero THEN "-0.0"
    ELSE IF x[2] = 1 THEN Str(x[1]) \o ".0" ELSE Format6g(x)

\* sep.join(parts), by halves so that intermediate texts stay short
RECURSIVE JoinRange(_, _, _, _)
JoinRange(parts, sep, lo, hi) ==
    IF lo > hi THEN ""
    ELSE IF lo = hi THEN parts[lo]
    ELSE LET mid == (lo + hi) \div 2
         IN  JoinRange(parts, sep, lo, mid) \o sep \o JoinRange(parts, sep, mid + 1, hi)
Join(parts, sep) == JoinRange(parts, sep, 1, Len(parts))

(***************************************************************************)
(* The arithmetic-only script, src/app.py.                                 *)
(***************************************************************************)
\* for i in range(num_terms): i is k - 1 at position k of the list
app_generate_arithmetic_sequence(first_term, common_difference, num_terms) ==
    IF num_terms <= 0 THEN <<>>
    ELSE [k \in 1..num_terms |->
            QAdd(first_term, QMul(Num(k - 1), common_difference))]

\* if term == int(term): str(int(term)), else f"{term:.6g}"
app_format_term(term) ==
    IF IsHuge(term) THEN Minus(term) \o HugeText
    ELSE IF QEq(term, Num(PyInt(term))) THEN Str(PyInt(term))
    ELSE Format6g(term)

app_format_sequence_display(sequence) ==
    IF sequence = <<>> THEN "No terms to display"
    ELSE Join([k \in 1..Len(sequence) |-> app_format_term(sequence[k])], ", ")

\* int(term) raises for the first term that is an infinity or a nan
app_format_sequence_display_raises(sequence) ==
    \E k \in 1..Len(sequence) : IntRaises(sequence[k])

(***************************************************************************)
(* The arithmetic + geometric script, src/unnamed/part_000.                *)
(***************************************************************************)
\* a faulty variant: the index starts at 1 (the n of the nth-term formula)
generate_arithmetic_one_based(first_term, common_difference, num_terms) ==
    IF num_terms <= 0 THEN <<>>
    ELSE [k \in 1..num_terms |->
            QAdd(first_term, QMul(Num(k), common_difference))]

generate_arithmetic_sequence(first_term, common_difference, num_terms) ==
    IF num_terms <= 0 THEN <<>>
    ELSE [k \in 1..num_terms |->
            QAdd(first_term, QMul(Num(k - 1), common_difference))]

\* a faulty variant: the exponent starts at 1, so the first term is a * r
generate_geometric_one_based(first_term, common_ratio, num_terms) ==
    IF num_terms <= 0 THEN <<>>
    ELSE [k \in 1..num_terms |-> QMul(first_term, Pow(common_ratio, k))]

\* a faulty variant: a non-positive count is answered with the first term alone
generate_geometric_never_empty(first_term, common_ratio, num_terms) ==
    IF num_terms <= 0 THEN <<first_term>>
    ELSE [k \in 1..num_terms |-> QMul(first_term, Pow(common_ratio, k - 1))]

generate_geometric_sequence(first_term, common_ratio, num_terms) ==
    IF num_terms <= 0 THEN <<>>
    ELSE [k \in 1..num_terms |-> QMul(first_term, Pow(common_ratio, k - 1))]

\* common_ratio ** i raises OverflowError for some i of the loop
generate_geometric_sequence_raises(first_term, common_ratio, num_terms) ==
    /\ num_terms > 0
    /\ \E i \in 0..(num_terms - 1) : PowOverflows(common_ratio, i)

\* a faulty variant: (n - 1) / 2 in place of n / 2
calculate_arithmetic_sum_short(first_term, common_difference, num_terms) ==
    IF num_terms <= 0 THEN Num(0)
    ELSE QMul(QDiv(Num(num_terms - 1), Num(2)),
              QAdd(QMul(Num(2), first_term),
                   QMul(Num(num_terms - 1), common_difference)))

calculate_arithmetic_sum(first_term, common_difference, num_terms) ==
    IF num_terms <= 0 THEN Num(0)
    ELSE QMul(QDiv(Num(num_terms), Num(2)),
              QAdd(QMul(Num(2), first_term),
                   QMul(Num(num_terms - 1), common_difference)))

\* a faulty variant: no special case for a ratio of 1
calculate_geometric_sum_general(first_term, common_ratio, num_terms) ==
    IF num_terms <= 0 THEN Num(0)
    ELSE QDiv(QMul(first_term, QSub(Num(1), Pow(common_ratio, num_terms))),
              QSub(Num(1), common_ratio))

calculate_geometric_sum(first_term, common_ratio, num_terms) ==
    IF num_terms <= 0 THEN Num(0)
    ELSE IF QEq(common_ratio, Num(1)) THEN QMul(Num(num_terms), first_term)
    ELSE QDiv(QMul(first_term, QSub(Num(1), Pow(common_ratio, num_terms))),
              QSub(Num(1), common_ratio))

\* common_ratio ** num_terms raises OverflowError
calculate_geometric_sum_raises(first_term, common_ratio, num_terms) ==
    /\ num_terms > 0
    /\ ~QEq(common_ratio, Num(1))
    /\ PowOverflows(common_ratio, num_terms)

\* a faulty variant: every term goes through str(term), as in the file name
format_term_as_float(term) == FloatRepr(term)

\* if term == int(term): str(int(term)), else f"{term:.6g}"
format_term(term) ==
    IF IsHuge(term) THEN Minus(term) \o HugeText
    ELSE IF QEq(term, Num(PyInt(term))) THEN Str(PyInt(term))
    ELSE Format6g(term)

\* a faulty variant: the terms are joined in reverse order
format_sequence_reversed(sequence) ==
    IF sequence = <<>> THEN "No terms to display"
    ELSE Join([k \in 1..Len(sequence) |->
                   format_term(sequence[Len(sequence) + 1 - k])], ", ")

format_sequence_display(sequence) ==
    IF sequence = <<>> THEN "No terms to display"
    ELSE Join([k \in 1..Len(sequence) |-> format_term(sequence[k])], ", ")

\* int(term) raises for the first term that is an infinity or a nan
format_sequence_display_raises(sequence) ==
    \E k \in 1..Len(sequence) : IntRaises(sequence[k])


(***************************************************************************)
(* One run of a script.  Streamlit runs main() from the top at every       *)
(* interaction; the widgets return the current inputs, st.button returns   *)
(* True only in the run its click started, and st.session_state outlives   *)
(* the run.  A run's result is the session state it leaves and the page    *)
(* it rendered:                                                            *)
(*   errors    the st.error messages                                       *)
(*   header    the st.header above the results                             *)
(*   metrics   the st.metric <<label, value>> pairs                        *)
(*   code      the st.code text                                            *)
(*   info      the st.info texts                                           *)
(*   download  the st.download_button's [data, file_name]                  *)
(*   calls     the functions of the script the run called, in order        *)
(*   guard     the values of generate_clicked that the guard tested        *)
(* The page's constant parts (title, input captions, examples) and the     *)
(* emoji and markdown symbols of the texts are left out; the letters       *)
(* a-sub-n, the multiplication sign and the superscript n-1 of the formula *)
(* are written a_n, x and ^(n-1).                                          *)
(***************************************************************************)
BlankPage ==
    [errors |-> <<>>, header |-> <<>>, metrics |-> <<>>, code |-> <<>>,
     info |-> <<>>, download |-> <<>>, calls |-> <<>>, guard |-> <<>>]

\* st.session_state is a map from keys to values; the empty map at first
NoSessionState == <<>>
HasKey(session_state, key) == key \in DOMAIN session_state
SetKey(session_state, key, value) ==
    [k \in DOMAIN session_state \cup {key} |->
        IF k = key THEN value ELSE session_state[k]]

\* str(e) of the OverflowError that float ** int raises
OverflowMessage == "(34, 'Numerical result out of range')"
ErrorPrefix == "An error occurred while generating the sequence: "
\* except Exception as e: st.error(...) with str(e); what the run rendered
\* before the exception stays on the page
app_caught(rendered, message) ==
    [rendered EXCEPT !.errors = <<ErrorPrefix \o message>>]
TooManyTerms == "Number of terms cannot exceed 1000 for performance reasons."
NotPositive == "Number of terms must be a positive integer."

\* the button and the default of generate_clicked
app_session_after_button(session_state, button) ==
    LET s1 == IF button THEN SetKey(session_state, "generate_clicked", TRUE)
              ELSE session_state
    IN  IF ~HasKey(s1, "generate_clicked")
        THEN SetKey(s1, "generate_clicked", TRUE) ELSE s1

app_formula(first_term, common_difference) ==
    IF ~QLess(common_difference, Num(0))
    THEN "a_n = " \o Format6g(first_term) \o " + (n-1) x "
         \o Format6g(common_difference)
    ELSE "a_n = " \o Format6g(first_term) \o " - (n-1) x "
         \o Format6g(QAbs(common_difference))

app_info(first_term, common_difference, sequence) ==
    IF Len(sequence) > 1
    THEN << "Last Term: " \o Format6g(sequence[Len(sequence)]),
            "Sum of Sequence: " \o Format6g(Sum(sequence)),
            "Range: " \o Format6g(QSub(Max(sequence), Min(sequence))),
            "Formula: " \o app_formula(first_term, common_difference) >>
    ELSE <<>>

app_sequence_text(first_term, common_difference, num_terms, formatted_sequence) ==
    "Arithmetic Sequence\n"
    \o "First Term: " \o Format6g(first_term) \o "\n"
    \o "Common Difference: " \o Format6g(common_difference) \o "\n"
    \o "Number of Terms: " \o Str(num_terms) \o "\n"
    \o "Sequence: " \o formatted_sequence \o "\n"

app_file_name(first_term, common_difference, num_terms) ==
    "arithmetic_sequence_" \o FloatRepr(first_term) \o "_"
    \o FloatRepr(common_difference) \o "_" \o Str(num_terms) \o ".txt"

\* the header and the metrics, and the call of format_sequence_display
app_before_code(first_term, common_difference, num_terms) ==
    [BlankPage EXCEPT
        !.header = <<"Generated Sequence">>,
        !.metrics = << <<"First Term", Format6g(first_term)>>,
                       <<"Common Difference", Format6g(common_difference)>>,
                       <<"Number of Terms", Str(num_terms)>> >>,
        !.calls = <<"generate_arithmetic_sequence", "format_sequence_display">>]

\* the results, the sequence formatted
app_results(first_term, common_difference, num_terms, sequence, formatted_sequence) ==
    [app_before_code(first_term, common_difference, num_terms) EXCEPT
        !.code = <<formatted_sequence>>,
        !.info = app_info(first_term, common_difference, sequence),
        !.download =
            << [data |-> app_sequence_text(first_term, common_difference,
                                           num_terms, formatted_sequence),
                file_name |-> app_file_name(first_term, common_difference,
                                            num_terms)] >>]

\* if sequence:, where format_sequence_display may raise after the header
\* and the metrics
app_render(first_term, common_difference, num_terms, sequence) ==
    IF sequence = <<>>
    THEN [BlankPage EXCEPT !.calls = <<"generate_arithmetic_sequence">>]
    ELSE IF app_format_sequence_display_raises(sequence)
    THEN app_caught(app_before_code(first_term, common_difference, num_terms),
                    IntMessage(FirstIntRaising(sequence)))
    ELSE app_results(first_term, common_difference, num_terms, sequence,
                     app_format_sequence_display(sequence))

\* the try block once the guard has let it run, with its except clause:
\* generate_arithmetic_sequence raises nothing, format_sequence_display may
app_generate(first_term, common_difference, num_terms) ==
    app_render(first_term, common_difference, num_terms,
               app_generate_arithmetic_sequence(first_term, common_difference,
                                                num_terms))

\* if st.session_state.generate_clicked:
app_guarded(first_term, common_difference, num_terms, s2) ==
    [session_state |-> s2,
     page |-> [(IF s2["generate_clicked"]
                THEN app_generate(first_term, common_difference, num_terms)
                ELSE BlankPage)
               EXCEPT !.guard = <<s2["generate_clicked"]>>]]

\* main() of src/app.py
app_main(first_term, common_difference, num_terms, button, session_state) ==
    IF num_terms > MAX_TERMS
    THEN [session_state |-> session_state,
          page |-> [BlankPage EXCEPT !.errors = <<TooManyTerms>>]]
    ELSE IF num_terms <= 0
    THEN [session_state |-> session_state,
          page |-> [BlankPage EXCEPT !.errors = <<NotPositive>>]]
    ELSE app_guarded(first_term, common_difference, num_terms,
                     app_session_after_button(session_state, button))

(***************************************************************************)
(* main() of src/unnamed/part_000.                                         *)
(***************************************************************************)
\* a faulty variant: the flag defaults to False, so that only a click sets it
session_default_false(session_state, button) ==
    LET s1 == IF button THEN SetKey(session_state, "generate_clicked", TRUE)
              ELSE session_state
    IN  IF ~HasKey(s1, "generate_clicked")
        THEN SetKey(s1, "generate_clicked", FALSE) ELSE s1

session_after_button(session_state, button) ==
    LET s1 == IF button THEN SetKey(session_state, "generate_clicked", TRUE)
              ELSE session_state
    IN  IF ~HasKey(s1, "generate_clicked")
        THEN SetKey(s1, "generate_clicked", TRUE) ELSE s1

\* sequence_type.lower()
Lower(sequence_type) ==
    IF sequence_type = "Arithmetic" THEN "arithmetic" ELSE "geometric"

second_label(sequence_type) ==
    IF sequence_type = "Arithmetic" THEN "Common Difference" ELSE "Common Ratio"

formula(sequence_type, first_term, second_param) ==
    IF sequence_type = "Arithmetic"
    THEN IF ~QLess(second_param, Num(0))
         THEN "a_n = " \o Format6g(first_term) \o " + (n-1) x "
              \o Format6g(second_param)
         ELSE "a_n = " \o Format6g(first_term) \o " - (n-1) x "
              \o Format6g(QAbs(second_param))
    ELSE "a_n = " \o Format6g(first_term) \o " x " \o Format6g(second_param)
         \o "^(n-1)"

info(sequence_type, first_term, second_param, sequence, calculated_sum) ==
    IF Len(sequence) > 1
    THEN << "Last Term: " \o Format6g(sequence[Len(sequence)]),
            "Sum of Series: " \o Format6g(calculated_sum),
            "Sum (Verification): " \o Format6g(Sum(sequence)),
            "Range: " \o Format6g(QSub(Max(sequence), Min(sequence))),
            "Formula: " \o formula(sequence_type, first_term, second_param) >>
    ELSE <<>>

\* a faulty variant: the text ends after the sequence, as in the arithmetic-only script
sequence_text_without_sum(sequence_type, first_term, second_param, num_terms, formatted_sequence, calculated_sum) ==
    sequence_type \o " Sequence\n"
    \o "First Term: " \o Format6g(first_term) \o "\n"
    \o second_label(sequence_type) \o ": " \o Format6g(second_param) \o "\n"
    \o "Number of Terms: " \o Str(num_terms) \o "\n"
    \o "Sequence: " \o formatted_sequence \o "\n"

sequence_text(sequence_type, first_term, second_param, num_terms, formatted_sequence, calculated_sum) ==
    sequence_type \o " Sequence\n"
    \o "First Term: " \o Format6g(first_term) \o "\n"
    \o second_label(sequence_type) \o ": " \o Format6g(second_param) \o "\n"
    \o "Number of Terms: " \o Str(num_terms) \o "\n"
    \o "Sequence: " \o formatted_sequence \o "\n"
    \o "Sum of Series: " \o Format6g(calculated_sum) \o "\n"

file_name(sequence_type, first_term, second_param, num_terms) ==
    Lower(sequence_type) \o "_sequence_" \o FloatRepr(first_term) \o "_"
    \o FloatRepr(second_param) \o "_" \o Str(num_terms) \o ".txt"

generator_name(sequence_type) ==
    IF sequence_type = "Arithmetic" THEN "generate_arithmetic_sequence"
    ELSE "generate_geometric_sequence"

sum_name(sequence_type) ==
    IF sequence_type = "Arithmetic" THEN "calculate_arithmetic_sum"
    ELSE "calculate_geometric_sum"

\* except Exception as e: st.error(...) with str(e); what the run rendered
\* before the exception stays on the page
caught(rendered, message) ==
    [rendered EXCEPT !.errors = <<ErrorPrefix \o message>>]

\* the header and the metrics, and the call of format_sequence_display
before_code(sequence_type, first_term, second_param, num_terms) ==
    [BlankPage EXCEPT
        !.header = <<"Generated " \o sequence_type \o " Sequence">>,
        !.metrics = << <<"First Term", Format6g(first_term)>>,
                       <<second_label(sequence_type), Format6g(second_param)>>,
                       <<"Number of Terms", Str(num_terms)>> >>,
        !.calls = <<generator_name(sequence_type), sum_name(sequence_type),
                    "format_sequence_display">>]

\* the results, the sequence formatted
results(sequence_type, first_term, second_param, num_terms, sequence, calculated_sum, formatted_sequence) ==
    [before_code(sequence_type, first_term, second_param, num_terms) EXCEPT
        !.code = <<formatted_sequence>>,
        !.info = info(sequence_type, first_term, second_param, sequence,
                      calculated_sum),
        !.download =
            << [data |-> sequence_text(sequence_type, first_term, second_param,
                                       num_terms, formatted_sequence,
                                       calculated_sum),
                file_name |-> file_name(sequence_type, first_term, second_param,
                                        num_terms)] >>]

\* if sequence:, where format_sequence_display may raise after the header
\* and the metrics
render(sequence_type, first_term, second_param, num_terms, sequence, calculated_sum) ==
    IF sequence = <<>>
    THEN [BlankPage EXCEPT !.calls = <<generator_name(sequence_type),
                                       sum_name(sequence_type)>>]
    ELSE IF format_sequence_display_raises(sequence)
    THEN caught(before_code(sequence_type, first_term, second_param, num_terms),
                IntMessage(FirstIntRaising(sequence)))
    ELSE results(sequence_type, first_term, second_param, num_terms, sequence,
                 calculated_sum, format_sequence_display(sequence))

\* the try block once the guard has let it run, with its except clause:
\* common_ratio ** i may raise in the generator or in the sum, before
\* anything is rendered, and format_sequence_display may raise in render
generate(sequence_type, first_term, second_param, num_terms) ==
    IF sequence_type = "Arithmetic"
    THEN render(sequence_type, first_term, second_param, num_terms,
                generate_arithmetic_sequence(first_term, second_param, num_terms),
                calculate_arithmetic_sum(first_term, second_param, num_terms))
    ELSE IF generate_geometric_sequence_raises(first_term, second_param, num_terms)
    THEN caught([BlankPage EXCEPT !.calls = <<generator_name(sequence_type)>>],
                OverflowMessage)
    ELSE IF calculate_geometric_sum_raises(first_term, second_param, num_terms)
    THEN caught([BlankPage EXCEPT !.calls = <<generator_name(sequence_type),
                                              sum_name(sequence_type)>>],
                OverflowMessage)
    ELSE render(sequence_type, first_term, second_param, num_terms,
                generate_geometric_sequence(first_term, second_param, num_terms),
                calculate_geometric_sum(first_term, second_param, num_terms))

\* if st.session_state.generate_clicked:
guarded(sequence_type, first_term, second_param, num_terms, s2) ==
    [session_state |-> s2,
     page |-> [(IF s2["generate_clicked"]
                THEN generate(sequence_type, first_term, second_param, num_terms)
                ELSE BlankPage)
               EXCEPT !.guard = <<s2["generate_clicked"]>>]]

\* main() of src/unnamed/part_000
main(sequence_type, first_term, second_param, num_terms, button, session_state) ==
    IF num_terms > MAX_TERMS
    THEN [session_state |-> session_state,
          page |-> [BlankPage EXCEPT !.errors = <<TooManyTerms>>]]
    ELSE IF num_terms <= 0
    THEN [session_state |-> session_state,
          page |-> [BlankPage EXCEPT !.errors = <<NotPositive>>]]
    ELSE guarded(sequence_type, first_term, second_param, num_terms,
                 session_after_button(session_state, button))

(***************************************************************************)
(* The inputs of the model.                                                *)
(***************************************************************************)
FirstTerms == {Half(k) : k \in (-2 * MaxFirstTerm)..(2 * MaxFirstTerm)}
SecondParams == {Half(k) : k \in (-2 * MaxStep)..(2 * MaxStep)} \cup {Num(BigRatio)}
\* the number widget is declared with min_value=1 and max_value=1000; main()
\* tests the range again, and the counts outside it exercise those tests
NumTerms == (-1..MaxSmallTerms) \cup {DEFAULT_NUM_TERMS, MAX_TERMS, MAX_TERMS + 1}
SequenceTypes == {"Arithmetic", "Geometric"}
Variants == {"arithmetic_only", "combined"}

\* runs of more than DEFAULT_NUM_TERMS terms are drawn for these inputs only
LongFirstTerms == {Num(1), Half(-1)}
LongSteps == {Num(-1), Num(1), Num(BigRatio)}

\* the geometric terms and sum are computed exactly: the ratio is -1, 0 or
\* 1, or its powers up to the n-th stay short
ExactGeometric(common_ratio, num_terms) ==
    IF common_ratio \in {Num(-1), Num(0), Num(1)} THEN TRUE
    ELSE BitLen(IF Abs(common_ratio[1]) > common_ratio[2]
                THEN Abs(common_ratio[1]) ELSE common_ratio[2]) * num_terms
         <= ExactBits

\* the inputs for which the model's numbers are the program's.  With Huge
\* among the inputs, the sums and multiples of an arithmetic run are Huge,
\* infinite or ordinary; those of a geometric run are when the other input
\* is Huge too or has an integer value.
Modelled(sequence_type, first_term, second_param, num_terms) ==
    IF num_terms <= 0 \/ num_terms > MAX_TERMS THEN TRUE
    ELSE IF num_terms > DEFAULT_NUM_TERMS
            /\ ~(first_term \in LongFirstTerms /\ second_param \in LongSteps)
    THEN FALSE
    ELSE IF sequence_type = "Arithmetic" THEN TRUE
    ELSE IF IsHuge(first_term) /\ IsHuge(second_param) THEN TRUE
    ELSE IF IsHuge(first_term)
    THEN second_param[2] = 1 /\ ExactGeometric(second_param, num_terms)
    ELSE IF IsHuge(second_param) THEN first_term[2] = 1
    ELSE IF ExactGeometric(second_param, num_terms) THEN TRUE
    ELSE IF generate_geometric_sequence_raises(first_term, second_param, num_terms)
    THEN TRUE
    ELSE FALSE

(***************************************************************************)
(* State.                                                                  *)
(***************************************************************************)
VARIABLES
    variant,        \* which script the session runs
    sequence_type,  \* st.radio (always "Arithmetic" in the arithmetic-only script)
    first_term,     \* the number widgets
    second_param,
    num_terms,
    button,         \* st.button's value in the last run
    session_state,  \* st.session_state
    page,           \* what the last run rendered
    call,           \* a direct call of one function: its arguments
    ret             \* and its result

widgets == <<sequence_type, first_term, second_param, num_terms>>
session == <<variant, widgets, button, session_state, page>>
vars == <<session, call, ret>>

NoCall == [kind |-> "none", a |-> Num(0), s |-> Num(0), n |-> 0, seq |-> <<>>]
NoRet == [fn |-> "none", list |-> <<>>, num |-> Num(0), text |-> "", raised |-> FALSE]

(***************************************************************************)
(* Spec: a session of either script, one action per interaction, each of   *)
(* which runs main() once.                                                 *)
(***************************************************************************)
Run(v, t, a, s, n, b, ss) ==
    IF v = "arithmetic_only" THEN app_main(a, s, n, b, ss)
    ELSE main(t, a, s, n, b, ss)

\* what a run leaves behind
Started(r) == session_state = r.session_state /\ page = r.page
Shown(r) == session_state' = r.session_state /\ page' = r.page

Rerun(t, a, s, n, b) ==
    /\ Modelled(t, a, s, n)
    /\ Shown(Run(variant, t, a, s, n, b, session_state))
    /\ sequence_type' = t
    /\ first_term' = a
    /\ second_param' = s
    /\ num_terms' = n
    /\ button' = b
    /\ UNCHANGED <<variant, call, ret>>

\* the first run of the script, all widgets at their defaults
Init ==
    /\ variant \in Variants
    /\ sequence_type = "Arithmetic"
    /\ first_term = Num(DEFAULT_FIRST_TERM)
    /\ second_param = Num(DEFAULT_DIFFERENCE)
    /\ num_terms = DEFAULT_NUM_TERMS
    /\ button = FALSE
    /\ Started(Run(variant, "Arithmetic", Num(DEFAULT_FIRST_TERM),
                   Num(DEFAULT_DIFFERENCE), DEFAULT_NUM_TERMS, FALSE, NoSessionState))
    /\ call = NoCall
    /\ ret = NoRet

SetFirstTerm(v) ==
    /\ v # first_term
    /\ Rerun(sequence_type, v, second_param, num_terms, FALSE)

SetSecondParam(v) ==
    /\ v # second_param
    /\ Rerun(sequence_type, first_term, v, num_terms, FALSE)

SetNumTerms(n) ==
    /\ n # num_terms
    /\ Rerun(sequence_type, first_term, second_param, n, FALSE)

\* The radio shows another second widget, which starts at its default.  The
\* first widget's help text names the type; whether a widget with a changed
\* help text keeps its value is the framework's choice.
SelectSequenceType(t, keep) ==
    /\ variant = "combined"
    /\ t # sequence_type
    /\ Rerun(t,
             IF keep THEN first_term ELSE Num(DEFAULT_FIRST_TERM),
             IF t = "Arithmetic" THEN Num(DEFAULT_DIFFERENCE) ELSE Num(DEFAULT_RATIO),
             num_terms, FALSE)

\* st.button is created after the range tests: a run that returned from them
\* left no button to click
ClickGenerate ==
    /\ num_terms > 0
    /\ num_terms <= MAX_TERMS
    /\ Rerun(sequence_type, first_term, second_param, num_terms, TRUE)

\* a click on st.download_button reruns the script: the widgets keep their
\* values and st.button returns False
ClickDownload ==
    /\ page.download # <<>>
    /\ Rerun(sequence_type, first_term, second_param, num_terms, FALSE)

\* the framework's Rerun command: the same run, whatever the page shows
RerunScript ==
    /\ TRUE
    /\ Rerun(sequence_type, first_term, second_param, num_terms, FALSE)

\* the number widgets of a session also take the largest power of two, from
\* which the terms leave the float range within a few steps
Next ==
    \/ \E v \in FirstTerms \cup {Huge} : SetFirstTerm(v)
    \/ \E v \in SecondParams \cup {Huge} : SetSecondParam(v)
    \/ \E n \in NumTerms : SetNumTerms(n)
    \/ \E t \in SequenceTypes, keep \in BOOLEAN : SelectSequenceType(t, keep)
    \/ ClickGenerate
    \/ ClickDownload
    \/ RerunScript

Spec == Init /\ [][Next]_vars


(***************************************************************************)
(* FnSpec: one direct call of one of the scripts' functions.  Init draws   *)
(* the arguments, an action applies a function to them.                    *)
(***************************************************************************)
ListItems == {Half(k) : k \in (-2 * MaxItem)..(2 * MaxItem)}

RECURSIVE ListsUpTo(_)
ListsUpTo(k) ==
    IF k = 0 THEN {<<>>}
    ELSE ListsUpTo(k - 1)
         \cup {Append(l, x) : l \in {m \in ListsUpTo(k - 1) : Len(m) = k - 1},
                              x \in ListItems}

NumberCalls ==
    {[kind |-> "numbers", a |-> a, s |-> s, n |-> n, seq |-> <<>>] :
        a \in FirstTerms, s \in SecondParams, n \in -1..MaxSmallTerms}
ListCalls ==
    {[kind |-> "list", a |-> Num(0), s |-> Num(0), n |-> 0, seq |-> l] :
        l \in ListsUpTo(MaxListLen)}

FnInit ==
    /\ variant = "none"
    /\ sequence_type = "Arithmetic"
    /\ first_term = Num(DEFAULT_FIRST_TERM)
    /\ second_param = Num(DEFAULT_DIFFERENCE)
    /\ num_terms = DEFAULT_NUM_TERMS
    /\ button = FALSE
    /\ session_state = NoSessionState
    /\ page = BlankPage
    /\ call \in NumberCalls \cup ListCalls
    /\ ret = NoRet

Returns(r) ==
    /\ ret = NoRet
    /\ ret' = r
    /\ UNCHANGED <<session, call>>

CallAppGenerateArithmetic ==
    /\ call.kind = "numbers"
    /\ Returns([NoRet EXCEPT
            !.fn = "app_generate_arithmetic_sequence",
            !.list = app_generate_arithmetic_sequence(call.a, call.s, call.n)])

CallGenerateArithmetic ==
    /\ call.kind = "numbers"
    /\ Returns([NoRet EXCEPT
            !.fn = "generate_arithmetic_sequence",
            !.list = generate_arithmetic_sequence(call.a, call.s, call.n)])

CallGenerateGeometric ==
    /\ call.kind = "numbers"
    /\ Modelled("Geometric", call.a, call.s, call.n)
    /\ Returns(IF generate_geometric_sequence_raises(call.a, call.s, call.n)
               THEN [NoRet EXCEPT !.fn = "generate_geometric_sequence",
                                  !.raised = TRUE]
               ELSE [NoRet EXCEPT
                        !.fn = "generate_geometric_sequence",
                        !.list = generate_geometric_sequence(call.a, call.s, call.n)])

CallArithmeticSum ==
    /\ call.kind = "numbers"
    /\ Returns([NoRet EXCEPT
            !.fn = "calculate_arithmetic_sum",
            !.num = calculate_arithmetic_sum(call.a, call.s, call.n)])

CallGeometricSum ==
    /\ call.kind = "numbers"
    /\ Modelled("Geometric", call.a, call.s, call.n)
    /\ Returns(IF calculate_geometric_sum_raises(call.a, call.s, call.n)
               THEN [NoRet EXCEPT !.fn = "calculate_geometric_sum",
                                  !.raised = TRUE]
               ELSE [NoRet EXCEPT
                        !.fn = "calculate_geometric_sum",
                        !.num = calculate_geometric_sum(call.a, call.s, call.n)])

CallAppFormat ==
    /\ call.kind = "list"
    /\ Returns([NoRet EXCEPT
            !.fn = "app_format_sequence_display",
            !.text = app_format_sequence_display(call.seq)])

CallFormat ==
    /\ call.kind = "list"
    /\ Returns([NoRet EXCEPT
            !.fn = "format_sequence_display",
            !.text = format_sequence_display(call.seq)])

FnNext ==
    \/ CallAppGenerateArithmetic
    \/ CallGenerateArithmetic
    \/ CallGenerateGeometric
    \/ CallArithmeticSum
    \/ CallGeometricSum
    \/ CallAppFormat
    \/ CallFormat

FnSpec == FnInit /\ [][FnNext]_vars


(***************************************************************************)
(* Properties of the functions, under FnSpec.                              *)
(***************************************************************************)
\* x to the i-th, as the i-fold product
RECURSIVE Power(_, _)
Power(x, i) == IF i = 0 THEN Num(1) ELSE QMul(Power(x, i - 1), x)

IsIntegral(x) == IsHuge(x) \/ (IsOrdinary(x) /\ (x[1] = 0 \/ x[2] = 1))

\* the pieces of a text between the separators ", "
RECURSIVE SplitFrom(_, _)
SplitFrom(text, from) ==
    LET commas == {i \in from..(Len(text) - 1) : SubSeq(text, i, i + 1) = ", "}
    IN  IF commas = {} THEN <<SubSeq(text, from, Len(text))>>
        ELSE LET p == CHOOSE i \in commas : \A j \in commas : i <= j
             IN  <<SubSeq(text, from, p - 1)>> \o SplitFrom(text, p + 2)
Split(text) == SplitFrom(text, 1)

HasPoint(text) == \E i \in 1..Len(text) : SubSeq(text, i, i) = "."

\* the number a decimal text [-]digits[.digits] denotes
DigitValue(c) == CHOOSE d \in 0..9 : DigitChar(d) = c
RECURSIVE ParseNat(_)
ParseNat(text) ==
    IF text = "" THEN 0
    ELSE 10 * ParseNat(SubSeq(text, 1, Len(text) - 1))
         + DigitValue(SubSeq(text, Len(text), Len(text)))
ParseUnsigned(text) ==
    IF HasPoint(text)
    THEN LET p == CHOOSE i \in 1..Len(text) : SubSeq(text, i, i) = "."
         IN  QAdd(Num(ParseNat(SubSeq(text, 1, p - 1))),
                  Q(ParseNat(SubSeq(text, p + 1, Len(text))), Pow10(Len(text) - p)))
    ELSE Num(ParseNat(text))
ParseDecimal(text) ==
    IF SubSeq(text, 1, 1) = "-" THEN QNeg(ParseUnsigned(SubSeq(text, 2, Len(text))))
    ELSE ParseUnsigned(text)

\* C1: for every first term a, common difference d and term count n > 0,
\* generate_arithmetic_sequence(a, d, n), in either script, returns exactly n
\* terms and its 0-indexed term i is a + i*d.
C1_ArithmeticTerms ==
    (ret.fn \in {"generate_arithmetic_sequence", "app_generate_arithmetic_sequence"}
     /\ call.n > 0)
    => /\ Len(ret.list) = call.n
       /\ \A i \in 0..(call.n - 1) :
              ret.list[i + 1] = QAdd(call.a, QMul(Num(i), call.s))

C1_Witness ==
    /\ ret.fn = "generate_arithmetic_sequence"
    /\ call.a = Half(1) /\ call.s = Num(-1) /\ call.n = 3
    /\ ret.list = <<Half(1), Half(-1), Half(-3)>>

\* C2: for every first term a, common ratio r and term count n > 0,
\* generate_geometric_sequence(a, r, n) returns exactly n terms and its
\* 0-indexed term i is a * r^i; term 0 is a, also when r = 0.
C2_GeometricTerms ==
    (ret.fn = "generate_geometric_sequence" /\ call.n > 0)
    => /\ ~ret.raised
       /\ Len(ret.list) = call.n
       /\ \A i \in 0..(call.n - 1) :
              ret.list[i + 1] = QMul(call.a, Power(call.s, i))
       /\ ret.list[1] = call.a

C2_Witness ==
    /\ ret.fn = "generate_geometric_sequence"
    /\ call.a = Num(1) /\ call.s = Num(0) /\ call.n = 3
    /\ ret.list = <<Num(1), Num(0), Num(0)>>

\* C3: for every term count n <= 0 and any first term and step, both
\* generators return the empty sequence, as a normal result.
C3_EmptyForNonPositive ==
    (ret.fn \in {"generate_arithmetic_sequence", "app_generate_arithmetic_sequence",
                 "generate_geometric_sequence"}
     /\ call.n <= 0)
    => ret.list = <<>> /\ ~ret.raised

C3_Witness ==
    /\ ret.fn = "generate_geometric_sequence"
    /\ call.n = -1 /\ call.s = Num(BigRatio)
    /\ ret.list = <<>>

\* C4: for both kinds and every (first term, step, n), the closed-form sum
\* equals the sum of the terms the matching generator returns for the same
\* arguments; for n <= 0 it is 0 and the sequence is empty.
C4_ClosedFormIsDirectSum ==
    /\ (ret.fn = "calculate_arithmetic_sum")
       => /\ QEq(ret.num, Sum(generate_arithmetic_sequence(call.a, call.s, call.n)))
          /\ call.n <= 0 => ret.num = Num(0)
    /\ (ret.fn = "calculate_geometric_sum")
       => /\ ~ret.raised
          /\ QEq(ret.num, Sum(generate_geometric_sequence(call.a, call.s, call.n)))
          /\ call.n <= 0 => ret.num = Num(0)

C4_Witness ==
    /\ ret.fn = "calculate_geometric_sum"
    /\ call.a = Half(1) /\ call.s = Half(-3) /\ call.n = 3
    /\ ret.num = Q(7, 8)

\* C5: for every first term a and term count n > 0,
\* calculate_geometric_sum(a, 1, n) is exactly n * a: the special case keeps
\* the division by 1 - r = 0 from being evaluated.
C5_RatioOneSum ==
    (ret.fn = "calculate_geometric_sum" /\ call.s = Num(1) /\ call.n > 0)
    => /\ ~ret.raised
       /\ IsNumber(ret.num)
       /\ ret.num = QMul(Num(call.n), call.a)

C5_Witness ==
    /\ ret.fn = "calculate_geometric_sum"
    /\ call.a = Half(1) /\ call.s = Num(1) /\ call.n = 3
    /\ ret.num = Half(3)

\* C6: format_sequence_display returns "No terms to display" for the empty
\* sequence; otherwise it returns one rendering per term, joined with ", "
\* in the order of the sequence, each rendering denoting its term and an
\* integer-valued term rendered without a decimal point; [1, 2, 3] gives
\* "1, 2, 3".
C6_FormatJoinsTerms ==
    (ret.fn \in {"format_sequence_display", "app_format_sequence_display"})
    => IF call.seq = <<>> THEN ret.text = "No terms to display"
       ELSE /\ Len(Split(ret.text)) = Len(call.seq)
            /\ \A i \in 1..Len(call.seq) :
                  /\ QEq(ParseDecimal(Split(ret.text)[i]), call.seq[i])
                  /\ IsIntegral(call.seq[i]) => ~HasPoint(Split(ret.text)[i])
            /\ call.seq = <<Num(1), Num(2), Num(3)>> => ret.text = "1, 2, 3"

C6_Witness ==
    /\ ret.fn = "format_sequence_display"
    /\ call.seq = <<Num(1), Half(-3), Num(2)>>
    /\ ret.text = "1, -1.5, 2"


(***************************************************************************)
(* Properties of the runs of main(), under Spec.                           *)
(***************************************************************************)
\* the term count passes both range tests of main()
InRange == num_terms > 0 /\ num_terms <= MAX_TERMS

\* nothing of the results is on the page
NothingRendered ==
    /\ page.header = <<>>
    /\ page.metrics = <<>>
    /\ page.code = <<>>
    /\ page.info = <<>>
    /\ page.download = <<>>

\* the value of the closed form for the inputs of the run
CalculatedSum ==
    IF sequence_type = "Arithmetic"
    THEN calculate_arithmetic_sum(first_term, second_param, num_terms)
    ELSE calculate_geometric_sum(first_term, second_param, num_terms)

\* the lines of a text, each ended by "\n"; what follows the last "\n", if
\* anything, is the last line
RECURSIVE LinesFrom(_, _, _)
LinesFrom(text, from, ends) ==
    IF ends = {}
    THEN IF from > Len(text) THEN <<>> ELSE <<SubSeq(text, from, Len(text))>>
    ELSE LET p == CHOOSE i \in ends : \A j \in ends : i <= j
         IN  <<SubSeq(text, from, p - 1)>> \o LinesFrom(text, p + 1, ends \ {p})
Lines(text) ==
    LinesFrom(text, 1, {i \in 1..Len(text) : SubSeq(text, i, i) = "\n"})

\* C7: in every run of main(), a term count <= 0 or > 1000 surfaces a message
\* and the run returns without calling a generator, sum calculator or
\* formatter; a term count in 1..1000 (1000 included) reaches generation,
\* which completes without an error outcome.
C7_Original ==
    /\ ~InRange => page.errors # <<>> /\ page.calls = <<>>
    /\ InRange => page.calls # <<>> /\ page.errors = <<>>

\* a run with the term count 1000 that ends in the error outcome: 4.0 ** 512
\* raises OverflowError in the generator, and nothing is rendered
C7_Witness ==
    /\ variant = "combined"
    /\ sequence_type = "Geometric"
    /\ first_term = Num(DEFAULT_FIRST_TERM)
    /\ second_param = Num(BigRatio)
    /\ num_terms = MAX_TERMS
    /\ page.errors = <<ErrorPrefix \o OverflowMessage>>
    /\ page.calls = <<"generate_geometric_sequence">>
    /\ NothingRendered

\* the lines of an artifact of the run: the type, the first term, the step
\* under its label, the term count and the formatted sequence as displayed
ArtifactLines(lines) ==
    /\ Len(lines) >= 5
    /\ lines[1] = sequence_type \o " Sequence"
    /\ lines[2] = "First Term: " \o Format6g(first_term)
    /\ lines[3] = (IF sequence_type = "Arithmetic" THEN "Common Difference: "
                   ELSE "Common Ratio: ") \o Format6g(second_param)
    /\ lines[4] = "Number of Terms: " \o Str(num_terms)
    /\ lines[5] = "Sequence: " \o page.code[1]

SumLine == "Sum of Series: " \o Format6g(CalculatedSum)

\* C8: whenever a run generates a sequence, it produces one plain-text
\* artifact whose lines are the sequence-type label, the first term, the step
\* label and value, the term count and the formatted sequence; in the
\* arithmetic + geometric script a sixth line carries the closed-form sum,
\* in the arithmetic-only script the artifact ends after the sequence and
\* carries no sum.
C8_ArtifactContents ==
    /\ (InRange /\ page.errors = <<>>) => Len(page.download) = 1
    /\ page.download # <<>>
       => /\ Len(page.code) = 1
          /\ ArtifactLines(Lines(page.download[1].data))
          /\ IF variant = "combined"
             THEN /\ Len(Lines(page.download[1].data)) = 6
                  /\ Lines(page.download[1].data)[6] = SumLine
             ELSE /\ Len(Lines(page.download[1].data)) = 5
                  /\ \A i \in 1..5 :
                        SubSeq(Lines(page.download[1].data)[i], 1, 4) # "Sum "

\* C8 as stated: in both scripts the artifact carries the closed-form sum.
C8_Original ==
    page.download # <<>>
    => /\ ArtifactLines(Lines(page.download[1].data))
       /\ \E i \in 1..Len(Lines(page.download[1].data)) :
              Lines(page.download[1].data)[i] = SumLine

C8_Witness ==
    /\ variant = "combined"
    /\ sequence_type = "Geometric"
    /\ first_term = Num(1) /\ second_param = Num(2) /\ num_terms = 3
    /\ Len(page.download) = 1
    /\ page.download[1].data =
           "Geometric Sequence\nFirst Term: 1\nCommon Ratio: 2\n"
           \o "Number of Terms: 3\nSequence: 1, 2, 4\nSum of Series: 7\n"

\* the flag, wherever a run has tested or stored it, is true; a run with a
\* term count in 1..1000 tests it and goes on to generation
FlagTrue ==
    /\ page.guard # <<>> => page.guard = <<TRUE>>
    /\ HasKey(session_state, "generate_clicked")
       => session_state["generate_clicked"] = TRUE
    /\ InRange => page.guard = <<TRUE>> /\ page.calls # <<>>

\* a run keeps the flag once it is set, and a click on Generate, the inputs
\* unchanged, renders the page that was there
FlagKept ==
    /\ HasKey(session_state, "generate_clicked")
       => /\ HasKey(session_state', "generate_clicked")
          /\ session_state'["generate_clicked"] = TRUE
    /\ (button' /\ widgets' = widgets) => page' = page

\* C9: across the runs of one session, with or without clicks on Generate,
\* with term counts in or out of range, generate_clicked is true every time
\* the guard tests it and is never set to false once set; so every run with a
\* term count in 1..1000 runs generation, and a click changes nothing of the
\* sequence, the sum or the formatted string.
C9_FlagAlwaysTrue == []FlagTrue /\ [][FlagKept]_vars

C9_Witness ==
    /\ button = TRUE
    /\ num_terms = MaxSmallTerms
    /\ session_state["generate_clicked"] = TRUE
    /\ page.guard = <<TRUE>>
    /\ Len(page.code) = 1

\* the five derived outputs: the closed-form sum next to the direct sum
InfoLines(sequence) ==
    /\ Len(page.info) = 5
    /\ page.info[1] = "Last Term: " \o Format6g(sequence[Len(sequence)])
    /\ page.info[2] = SumLine
    /\ page.info[3] = "Sum (Verification): " \o Format6g(Sum(sequence))
    /\ SubSeq(page.info[4], 1, 7) = "Range: "
    /\ SubSeq(page.info[5], 1, 9) = "Formula: "

\* C10: in the arithmetic + geometric script, for a run with a term count n
\* in 1..1000: the derived outputs (last term, closed-form sum, direct sum,
\* range, formula) are rendered if and only if n >= 2, whereas the formatted
\* sequence, the three metrics and the artifact with the closed-form sum are
\* rendered for every n in 1..1000.
C10_Original ==
    (variant = "combined" /\ InRange)
    => /\ (page.info # <<>>) <=> (num_terms >= 2)
       /\ page.info # <<>>
          => InfoLines(IF sequence_type = "Arithmetic"
                       THEN generate_arithmetic_sequence(
                                first_term, second_param, num_terms)
                       ELSE generate_geometric_sequence(
                                first_term, second_param, num_terms))
       /\ Len(page.code) = 1
       /\ Len(page.metrics) = 3
       /\ Len(page.download) = 1
       /\ Lines(page.download[1].data)[6] = SumLine

\* a run with two terms in which the second term is an infinity: int(term)
\* raises in format_sequence_display after the header and the metrics, and
\* neither the sequence, the derived outputs nor the artifact is rendered
C10_Witness ==
    /\ variant = "combined"
    /\ sequence_type = "Arithmetic"
    /\ first_term = Huge /\ second_param = Huge /\ num_terms = 2
    /\ page.errors = <<ErrorPrefix \o IntMessage(Inf)>>
    /\ Len(page.metrics) = 3
    /\ page.code = <<>>
    /\ page.info = <<>>
    /\ page.download = <<>>


(***************************************************************************)
(* PairSpec: the two scripts side by side.  One session of src/app.py and  *)
(* one of src/unnamed/part_000 with the radio left at "Arithmetic" get the *)
(* same interactions; session_state and page hold one value per script.    *)
(***************************************************************************)
\* one run of each script on the same inputs
Both(a, s, n, b, ss) ==
    [arithmetic_only |-> app_main(a, s, n, b, ss.arithmetic_only),
     combined |-> main("Arithmetic", a, s, n, b, ss.combined)]

BothShown(r) ==
    /\ session_state' = [arithmetic_only |-> r.arithmetic_only.session_state,
                         combined |-> r.combined.session_state]
    /\ page' = [arithmetic_only |-> r.arithmetic_only.page,
                combined |-> r.combined.page]

BothRerun(a, s, n, b) ==
    /\ Modelled("Arithmetic", a, s, n)
    /\ BothShown(Both(a, s, n, b, session_state))
    /\ first_term' = a
    /\ second_param' = s
    /\ num_terms' = n
    /\ button' = b
    /\ UNCHANGED <<variant, sequence_type, call, ret>>

\* the first run of both scripts, all widgets at their defaults
PairInit ==
    /\ variant = "both"
    /\ sequence_type = "Arithmetic"
    /\ first_term = Num(DEFAULT_FIRST_TERM)
    /\ second_param = Num(DEFAULT_DIFFERENCE)
    /\ num_terms = DEFAULT_NUM_TERMS
    /\ button = FALSE
    /\ session_state =
           [arithmetic_only |->
                app_main(Num(DEFAULT_FIRST_TERM), Num(DEFAULT_DIFFERENCE),
                         DEFAULT_NUM_TERMS, FALSE, NoSessionState).session_state,
            combined |->
                main("Arithmetic", Num(DEFAULT_FIRST_TERM), Num(DEFAULT_DIFFERENCE),
                     DEFAULT_NUM_TERMS, FALSE, NoSessionState).session_state]
    /\ page =
           [arithmetic_only |->
                app_main(Num(DEFAULT_FIRST_TERM), Num(DEFAULT_DIFFERENCE),
                         DEFAULT_NUM_TERMS, FALSE, NoSessionState).page,
            combined |->
                main("Arithmetic", Num(DEFAULT_FIRST_TERM), Num(DEFAULT_DIFFERENCE),
                     DEFAULT_NUM_TERMS, FALSE, NoSessionState).page]
    /\ call = NoCall
    /\ ret = NoRet

BothSetFirstTerm(v) ==
    /\ v # first_term
    /\ BothRerun(v, second_param, num_terms, FALSE)

BothSetCommonDifference(v) ==
    /\ v # second_param
    /\ BothRerun(first_term, v, num_terms, FALSE)

BothSetNumTerms(n) ==
    /\ n # num_terms
    /\ BothRerun(first_term, second_param, n, FALSE)

\* both pages have the button, or neither has
BothClickGenerate ==
    /\ num_terms > 0
    /\ num_terms <= MAX_TERMS
    /\ BothRerun(first_term, second_param, num_terms, TRUE)

\* a click on st.download_button in both: both pages have it, or neither has
BothClickDownload ==
    /\ page.arithmetic_only.download # <<>>
    /\ page.combined.download # <<>>
    /\ BothRerun(first_term, second_param, num_terms, FALSE)

\* the framework's Rerun command in both
BothRerunScript ==
    /\ TRUE
    /\ BothRerun(first_term, second_param, num_terms, FALSE)

PairNext ==
    \/ \E v \in FirstTerms : BothSetFirstTerm(v)
    \/ \E v \in SecondParams : BothSetCommonDifference(v)
    \/ \E n \in NumTerms : BothSetNumTerms(n)
    \/ BothClickGenerate
    \/ BothClickDownload
    \/ BothRerunScript

PairSpec == PairInit /\ [][PairNext]_vars


(***************************************************************************)
(* Properties of the two scripts side by side, under PairSpec.             *)
(***************************************************************************)
\* the text of a line after its label
AfterLabel(line, label) == SubSeq(line, Len(label) + 1, Len(line))

\* the additional information of the two pages: the last term, the range
\* and the formula are the same lines; the direct sum is the same number
\* under two labels; the combined page adds the closed-form sum
InfoAgrees(A, C) ==
    IF A.info = <<>> THEN C.info = <<>>
    ELSE /\ Len(A.info) = 4
         /\ Len(C.info) = 5
         /\ A.info[1] = C.info[1]
         /\ SubSeq(A.info[2], 1, 17) = "Sum of Sequence: "
         /\ SubSeq(C.info[3], 1, 20) = "Sum (Verification): "
         /\ AfterLabel(A.info[2], "Sum of Sequence: ")
                = AfterLabel(C.info[3], "Sum (Verification): ")
         /\ C.info[2] = SumLine
         /\ A.info[3] = C.info[4]
         /\ A.info[4] = C.info[5]

\* the artifacts of the two pages: the same file name, and the combined text
\* is the arithmetic-only text followed by the line of the closed-form sum
DownloadAgrees(A, C) ==
    IF A.download = <<>> THEN C.download = <<>>
    ELSE /\ Len(A.download) = 1
         /\ Len(C.download) = 1
         /\ A.download[1].file_name = C.download[1].file_name
         /\ C.download[1].data = A.download[1].data \o SumLine \o "\n"

\* what the two runs have in common, and all that they differ in
PagesAgree(A, C) ==
    /\ A.errors = C.errors
    /\ A.guard = C.guard
    /\ A.metrics = C.metrics
    /\ A.code = C.code
    /\ IF A.header = <<>> THEN C.header = <<>>
       ELSE /\ A.header = <<"Generated Sequence">>
            /\ C.header = <<"Generated Arithmetic Sequence">>
    /\ InfoAgrees(A, C)
    /\ DownloadAgrees(A, C)
    /\ A.calls = SelectSeq(C.calls, LAMBDA c : c # "calculate_arithmetic_sum")

\* C11: for every (first term, common difference, term count) of the input
\* set, the arithmetic-only script and the combined script with type
\* Arithmetic, run side by side on the same inputs, give the same validation
\* outcome, the same generated sequence and the same formatted sequence (and
\* the same metrics, file name and session state).  They differ in this
\* only: the combined script calls calculate_arithmetic_sum and adds the
\* closed-form sum to the additional information and to the artifact, it
\* labels the direct sum "Sum (Verification)" where the arithmetic-only
\* script labels it "Sum of Sequence", and its header names the type.
C11_VariantsAgree ==
    /\ session_state.arithmetic_only = session_state.combined
    /\ app_generate_arithmetic_sequence(first_term, second_param, num_terms)
           = generate_arithmetic_sequence(first_term, second_param, num_terms)
    /\ InRange
       => /\ page.arithmetic_only.code
                 = <<app_format_sequence_display(
                         app_generate_arithmetic_sequence(
                             first_term, second_param, num_terms))>>
          /\ page.combined.code
                 = <<format_sequence_display(
                         generate_arithmetic_sequence(
                             first_term, second_param, num_terms))>>
    /\ PagesAgree(page.arithmetic_only, page.combined)

\* C11 as stated: but for the closed-form sum and its cross-check, which the
\* combined script adds, the two pages are the same.
C11_Original ==
    /\ page.arithmetic_only.errors = page.combined.errors
    /\ page.arithmetic_only.code = page.combined.code
    /\ page.arithmetic_only.metrics = page.combined.metrics
    /\ page.arithmetic_only.header = page.combined.header
    /\ page.combined.info # <<>>
       => page.arithmetic_only.info
              = <<page.combined.info[1], page.combined.info[4],
                  page.combined.info[5]>>

C11_Witness ==
    /\ variant = "both"
    /\ first_term = Half(1) /\ second_param = Num(-1) /\ num_terms = 3
    /\ page.arithmetic_only.code = <<"0.5, -0.5, -1.5">>
    /\ page.combined.code = <<"0.5, -0.5, -1.5">>
    /\ page.arithmetic_only.info[2] = "Sum of Sequence: -1.5"
    /\ page.combined.info[2] = "Sum of Series: -1.5"
    /\ page.combined.info[3] = "Sum (Verification): -1.5"

====
